---- MODULE Spec2Model ----
(***************************************************************************)
(* MultiVeniceTool: a model of the repository's entry points.        *)
(*                                                                         *)
(*   prog = "flask"  src/testgpt/MultiVeniceTool.py  (HTTP control server) *)
(*   prog = "tk"     src/MultiVeniceTool.py          (Tk + Playwright app) *)
(*   prog = "rec"    src/testgpt/multirec.py         (kiosk controller)    *)
(*                                                                         *)
(* The programs share no state: `prog` is fixed by Init and every action   *)
(* belongs to one program.                                                 *)
(*                                                                         *)
(* Python strings are sequences of one-character strings, so that lower(), *)
(* slugify() and rstrip("/") are computed character by character.          *)
(* A missing key and an empty string are both <<>>: every place of the     *)
(* code that reads name, id, url, label or button_id tests truthiness.     *)
(***************************************************************************)
EXTENDS Integers, Sequences, FiniteSets, TLC

VARIABLES
    prog,            \* which entry point runs
    \* ---- src/testgpt/MultiVeniceTool.py ----
    CONFIG,          \* global CONFIG: settings, cameras, buttons
    CAMERAS_BY_ID,   \* global dict id -> camera
    BUTTONS_BY_ID,   \* global dict id -> button
    loader,          \* the load_config call in flight (its locals and position)
    req,             \* the api_run_button call in flight (its locals and position)
    \* ---- src/MultiVeniceTool.py ----
    cameras,         \* list objects of Camera objects, by generation
    gen,             \* self.cameras is cameras[gen]
    ctxs,            \* browser contexts ever created: state, credentials, address
    up,              \* addresses that answer during this run (environment)
    stack,           \* _connect_all_cameras calls in progress (nested by root.update)
    app,             \* browser handle, closed flag, pending timers, summary label
    lastOp,          \* what the last connect_camera, toggle or status check did
    \* ---- src/testgpt/multirec.py ----
    ctl              \* the VeniceController, its browsers and what it printed

flaskVars == <<CONFIG, CAMERAS_BY_ID, BUTTONS_BY_ID, loader, req>>
tkVars == <<cameras, gen, ctxs, up, stack, app, lastOp>>
recVars == <<ctl>>
vars == <<prog, CONFIG, CAMERAS_BY_ID, BUTTONS_BY_ID, loader, req,
          cameras, gen, ctxs, up, stack, app, lastOp, ctl>>

(***************************************************************************)
(* Strings                                                                 *)
(***************************************************************************)
LowerChar(c) ==
    CASE c = "A" -> "a"
      [] c = "B" -> "b"
      [] c = "C" -> "c"
      [] c = "L" -> "l"
      [] c = "Y" -> "y"
      [] OTHER -> c

Lower(s) == [i \in 1..Len(s) |-> LowerChar(s[i])]

\* the characters of [a-z0-9] that occur in the model's strings
AlnumLower == {"a", "b", "c", "l", "y", "u", "1", "2", "3"}

RECURSIVE DropNonAlnum(_)
DropNonAlnum(s) ==
    IF s = <<>> THEN <<>>
    ELSE IF Head(s) \in AlnumLower THEN s
    ELSE DropNonAlnum(Tail(s))

\* re.sub(r"[^a-z0-9]+", "-", s): each maximal run of other characters becomes one "-"
RECURSIVE SubRuns(_)
SubRuns(s) ==
    IF s = <<>> THEN <<>>
    ELSE IF Head(s) \in AlnumLower THEN <<Head(s)>> \o SubRuns(Tail(s))
    ELSE <<"-">> \o SubRuns(DropNonAlnum(Tail(s)))

RECURSIVE LStrip(_, _)
LStrip(s, c) ==
    IF s # <<>> /\ Head(s) = c THEN LStrip(Tail(s), c) ELSE s

RECURSIVE RStrip(_, _)
RStrip(s, c) ==
    IF s # <<>> /\ s[Len(s)] = c THEN RStrip(SubSeq(s, 1, Len(s) - 1), c) ELSE s

Strip(s, c) == RStrip(LStrip(s, c), c)

Slugify(name) ==
    LET t == Strip(SubRuns(Lower(name)), "-")
    IN  IF t = <<>> THEN <<"i", "t", "e", "m">> ELSE t

EmptyDict == [k \in {} |-> 0]

\* d[k] = v on a Python dict
DictPut(d, k, v) == [x \in DOMAIN d \cup {k} |-> IF x = k THEN v ELSE d[x]]

\* the elements of a sequence
Range(s) == {s[i] : i \in 1..Len(s)}

\* every list that holds each element of S exactly once
Orderings(S) ==
    {s \in [1..Cardinality(S) -> S] : \A x \in S : \E i \in 1..Cardinality(S) : s[i] = x}

(***************************************************************************)
(* src/testgpt/MultiVeniceTool.py: config.yaml contents                    *)
(***************************************************************************)
DelayMs == 50

\* a mapping entry of `cameras:` (kind "map") or a scalar entry (kind "scalar")
RawCam(name, id, url) == [kind |-> "map", name |-> name, id |-> id, url |-> url]
ScalarEntry == [kind |-> "scalar", name |-> <<>>, id |-> <<>>, url |-> <<>>]

\* `targets:` given as one string (isStr) or as a list of strings
TargetsStr(s) == [isStr |-> TRUE, s |-> s, l |-> <<>>]
TargetsList(l) == [isStr |-> FALSE, s |-> <<>>, l |-> l]
RawBtn(label, id, targets) ==
    [kind |-> "map", label |-> label, id |-> id, targets |-> targets]

CamA == RawCam(<<"A">>, <<>>, <<"u", "1">>)            \* id defaults to slug "a"
CamB == RawCam(<<"B">>, <<"y">>, <<"u", "2", "/">>)    \* explicit id, url with slash
CamC == RawCam(<<"C">>, <<>>, <<"u", "3">>)
CamDup == RawCam(<<"C">>, <<"a">>, <<"u", "3">>)       \* explicit id = CamA's slug
CamNoName == RawCam(<<>>, <<"c">>, <<"u", "3">>)
CamNoUrl == RawCam(<<"C">>, <<>>, <<"/">>)

BtnAll == RawBtn(<<"L">>, <<>>, TargetsStr(<<"A", "L", "L">>))
BtnSel == RawBtn(<<"s">>, <<"s">>, TargetsList(<< <<"A">>, <<"b">> >>))
BtnOne == RawBtn(<<"S">>, <<"s">>, TargetsStr(<<"Y">>))  \* one name, not "all"
BtnNoLabel == RawBtn(<<>>, <<"s">>, TargetsStr(<<"a">>))

\* the files config.yaml can be when load_config reads it
RawConfigs == <<
    [exists |-> TRUE, delay |-> 0,
     cameras |-> <<CamA, CamB>>, buttons |-> <<BtnAll, BtnSel>>],
    [exists |-> TRUE, delay |-> DelayMs,
     cameras |-> <<CamA, CamNoName, CamB, CamC>>,
     buttons |-> <<BtnAll, BtnNoLabel, BtnOne>>],
    [exists |-> TRUE, delay |-> 0,
     cameras |-> <<CamA, CamNoUrl, CamDup>>, buttons |-> <<BtnAll, BtnSel>>],
    [exists |-> TRUE, delay |-> 0,
     cameras |-> <<CamA, ScalarEntry, CamB>>, buttons |-> <<BtnAll>>],
    [exists |-> FALSE, delay |-> 0, cameras |-> <<>>, buttons |-> <<>>]
>>

ConfigIds == 1..Len(RawConfigs)

(***************************************************************************)
(* load_config                                                             *)
(***************************************************************************)
\* lines 63-93, one entry of the camera loop: the locals `cameras` and the
\* global CAMERAS_BY_ID after it ("raised" when cam.get fails on a scalar)
LoadCameraEntry(cam, cams, byId) ==
    IF cam.kind # "map" THEN [raised |-> TRUE, cameras |-> cams, byId |-> byId]
    ELSE IF cam.name = <<>> THEN [raised |-> FALSE, cameras |-> cams, byId |-> byId]
    ELSE LET cid == IF cam.id # <<>> THEN cam.id ELSE Slugify(cam.name)
             url == RStrip(cam.url, "/")
             c == [id |-> cid, name |-> cam.name, url |-> url]
         IN  IF url = <<>>
             THEN [raised |-> FALSE, cameras |-> cams, byId |-> byId]
             ELSE [raised |-> FALSE, cameras |-> Append(cams, c),
                   byId |-> DictPut(byId, cid, c)]

\* lines 109-116
NormalizeTargets(t) ==
    IF t.isStr
    THEN IF Lower(t.s) = <<"a", "l", "l">>
         THEN [all |-> TRUE, list |-> <<>>]
         ELSE [all |-> FALSE, list |-> <<t.s>>]
    ELSE [all |-> FALSE, list |-> t.l]

\* lines 99-132, one entry of the button loop
LoadButtonEntry(btn, btns, byId) ==
    IF btn.kind # "map" THEN [raised |-> TRUE, buttons |-> btns, byId |-> byId]
    ELSE IF btn.label = <<>> THEN [raised |-> FALSE, buttons |-> btns, byId |-> byId]
    ELSE LET bid == IF btn.id # <<>> THEN btn.id ELSE Slugify(btn.label)
             b == [id |-> bid, label |-> btn.label,
                   targets |-> NormalizeTargets(btn.targets)]
         IN  [raised |-> FALSE, buttons |-> Append(btns, b),
              byId |-> DictPut(byId, bid, b)]

RECURSIVE CamerasAfter(_, _)
\* the camera loop run over the first n entries
CamerasAfter(raw, n) ==
    IF n = 0 THEN [raised |-> FALSE, cameras |-> <<>>, byId |-> EmptyDict]
    ELSE LET p == CamerasAfter(raw, n - 1)
         IN  IF p.raised THEN p ELSE LoadCameraEntry(raw[n], p.cameras, p.byId)

RECURSIVE ButtonsAfter(_, _)
ButtonsAfter(raw, n) ==
    IF n = 0 THEN [raised |-> FALSE, buttons |-> <<>>, byId |-> EmptyDict]
    ELSE LET p == ButtonsAfter(raw, n - 1)
         IN  IF p.raised THEN p ELSE LoadButtonEntry(raw[n], p.buttons, p.byId)

\* lines 134-141
MakeConfig(delay, cams, btns) ==
    [settings |-> [command_delay_ms |-> delay], cameras |-> cams, buttons |-> btns]

\* a load_config call that ran from its first line to its last on file g
FullLoad(g) ==
    LET r == RawConfigs[g]
        c == CamerasAfter(r.cameras, Len(r.cameras))
        b == ButtonsAfter(r.buttons, Len(r.buttons))
    IN  [raised |-> (~r.exists) \/ c.raised \/ b.raised,
         CONFIG |-> MakeConfig(r.delay, c.cameras, b.buttons),
         CAMERAS_BY_ID |-> c.byId,
         BUTTONS_BY_ID |-> b.byId]

\* the files the server can start on: __main__ calls load_config before app.run
Loadable == {g \in ConfigIds : ~FullLoad(g).raised}

LoaderIdle == [pc |-> "idle", g |-> 0, i |-> 0, cameras |-> <<>>, buttons |-> <<>>,
               failed |-> FALSE]

\* POST /api/reload_config, lines 44-61: the file is read, the settings parsed,
\* `cameras = []` and `CAMERAS_BY_ID = {}`
ReloadBegin(g) ==
    /\ prog = "flask"
    /\ loader.pc = "idle"
    /\ IF ~RawConfigs[g].exists
       THEN /\ loader' = [LoaderIdle EXCEPT !.failed = TRUE]
            /\ UNCHANGED CAMERAS_BY_ID
       ELSE /\ loader' = [LoaderIdle EXCEPT !.pc = "cameras", !.g = g, !.i = 1]
            /\ CAMERAS_BY_ID' = EmptyDict
    /\ UNCHANGED <<prog, CONFIG, BUTTONS_BY_ID, req>>
    /\ UNCHANGED <<tkVars, recVars>>

\* lines 63-97: one pass of the camera loop; after the last, `buttons = []` and
\* `BUTTONS_BY_ID = {}`
ReloadCameraStep ==
    /\ prog = "flask"
    /\ loader.pc = "cameras"
    /\ LET raw == RawConfigs[loader.g].cameras
       IN  IF loader.i > Len(raw)
           THEN /\ loader' = [loader EXCEPT !.pc = "buttons", !.i = 1]
                /\ BUTTONS_BY_ID' = EmptyDict
                /\ UNCHANGED CAMERAS_BY_ID
           ELSE LET r == LoadCameraEntry(raw[loader.i], loader.cameras, CAMERAS_BY_ID)
                IN  /\ CAMERAS_BY_ID' = r.byId
                    /\ loader' = IF r.raised
                                 THEN [LoaderIdle EXCEPT !.failed = TRUE]
                                 ELSE [loader EXCEPT !.i = @ + 1, !.cameras = r.cameras]
                    /\ UNCHANGED BUTTONS_BY_ID
    /\ UNCHANGED <<prog, CONFIG, req>>
    /\ UNCHANGED <<tkVars, recVars>>

\* lines 99-141: one pass of the button loop; after the last, CONFIG is assigned
ReloadButtonStep ==
    /\ prog = "flask"
    /\ loader.pc = "buttons"
    /\ LET raw == RawConfigs[loader.g].buttons
       IN  IF loader.i > Len(raw)
           THEN /\ CONFIG' = MakeConfig(RawConfigs[loader.g].delay,
                                        loader.cameras, loader.buttons)
                /\ loader' = LoaderIdle
                /\ UNCHANGED BUTTONS_BY_ID
           ELSE LET r == LoadButtonEntry(raw[loader.i], loader.buttons, BUTTONS_BY_ID)
                IN  /\ BUTTONS_BY_ID' = r.byId
                    /\ loader' = IF r.raised
                                 THEN [LoaderIdle EXCEPT !.failed = TRUE]
                                 ELSE [loader EXCEPT !.i = @ + 1, !.buttons = r.buttons]
                    /\ UNCHANGED CONFIG
    /\ UNCHANGED <<prog, CAMERAS_BY_ID, req>>
    /\ UNCHANGED <<tkVars, recVars>>

(***************************************************************************)
(* resolve_button_targets, send_camera_request, api_run_button             *)
(***************************************************************************)
\* lines 204-213
AllowedIds(button, cfg, byId) ==
    IF button.targets.all
    THEN DOMAIN byId
    ELSE {cfg.cameras[i].id : i \in
            {i \in 1..Len(cfg.cameras) :
                \E j \in 1..Len(button.targets.list) :
                    LET t_lower == Lower(button.targets.list[j])
                    IN  \/ Lower(cfg.cameras[i].id) = t_lower
                        \/ Lower(cfg.cameras[i].name) = t_lower}}

\* lines 215-219, before list(): the set target_ids is built from
TargetIdSet(button, requested_ids, cfg, byId) ==
    IF requested_ids # <<>>
    THEN AllowedIds(button, cfg, byId) \cap Range(requested_ids)
    ELSE AllowedIds(button, cfg, byId)

\* lines 200-221: every value the call can return. list(set) yields the ids in
\* the set's iteration order, which for str keys follows the process's hash seed:
\* any order. A CAMERAS_BY_ID[cid] that misses raises KeyError.
ResolveButtonTargets(button, requested_ids, cfg, byId) ==
    LET ids == TargetIdSet(button, requested_ids, cfg, byId)
    IN  IF \E cid \in ids : cid \notin DOMAIN byId
        THEN {[raised |-> TRUE, targets |-> <<>>]}
        ELSE {[raised |-> FALSE, targets |-> [i \in 1..Len(o) |-> byId[o[i]]]] :
                o \in Orderings(ids)}

\* what requests.request does: a 2xx/3xx answer, a 4xx/5xx answer, or an
\* exception (connect error, timeout)
Outcomes == {"success", "http_error", "exception"}

\* lines 174-197
SendCameraRequest(cam, outcome) ==
    CASE outcome = "success" ->
            [camera_id |-> cam.id, camera_name |-> cam.name, ok |-> TRUE,
             status_code |-> "200", error |-> "None"]
      [] outcome = "http_error" ->
            [camera_id |-> cam.id, camera_name |-> cam.name, ok |-> FALSE,
             status_code |-> "500", error |-> "resp.text"]
      [] OTHER ->
            [camera_id |-> cam.id, camera_name |-> cam.name, ok |-> FALSE,
             status_code |-> "None", error |-> "str(e)"]

\* line 308 with any() for all()
AnyOk(results) == \E i \in 1..Len(results) : results[i].ok

\* line 308
AllOk(results) == \A i \in 1..Len(results) : results[i].ok

NoButton == [id |-> <<>>, label |-> <<>>, targets |-> [all |-> FALSE, list |-> <<>>]]

\* whether what one handler read at line 288 (BUTTONS_BY_ID) and inside
\* resolve_button_targets (CONFIG["cameras"], CAMERAS_BY_ID) is the registry of
\* one completed load_config
OneGeneration(buttonsById, cams, camsById) ==
    \E g \in Loadable :
        /\ FullLoad(g).BUTTONS_BY_ID = buttonsById
        /\ FullLoad(g).CONFIG.cameras = cams
        /\ FullLoad(g).CAMERAS_BY_ID = camsById

ReqIdle ==
    [pc |-> "idle", button_id |-> <<>>, target_ids |-> <<>>,
     button |-> NoButton, command_delay_ms |-> 0,
     targets |-> <<>>, idx |-> 0, results |-> <<>>,
     wire |-> <<>>,                      \* requests sent and sleeps taken, in order
     status |-> "none", ok |-> FALSE, error |-> "None",
     resolved |-> FALSE,                 \* resolve_button_targets returned
     seenButtons |-> EmptyDict,          \* BUTTONS_BY_ID as read at line 288, until resolve
     seenCameras |-> <<>>,               \* CONFIG["cameras"] as read by resolve_button_targets
     sawOneGeneration |-> TRUE]          \* OneGeneration of what the handler read

\* the request bodies clients send
ButtonIdInputs == {<<>>, <<"l">>, <<"s">>, <<"q">>}
TargetIdInputs == {<<>>, << <<"y">>, <<"c">> >>, << <<"c">> >>}

\* lines 284-293 without the check of lines 288-289
RunButtonBeginSkipsCheck(button_id, target_ids) ==
    /\ prog = "flask"
    /\ req.pc \in {"idle", "done"}
    /\ req' = [ReqIdle EXCEPT
                !.button_id = button_id, !.target_ids = target_ids,
                !.pc = "resolve",
                !.seenButtons = BUTTONS_BY_ID,
                !.button = IF button_id \in DOMAIN BUTTONS_BY_ID
                           THEN BUTTONS_BY_ID[button_id] ELSE NoButton,
                !.command_delay_ms = CONFIG.settings.command_delay_ms]
    /\ UNCHANGED <<prog, CONFIG, CAMERAS_BY_ID, BUTTONS_BY_ID, loader>>
    /\ UNCHANGED <<tkVars, recVars>>

\* lines 284-293
RunButtonBegin(button_id, target_ids) ==
    /\ prog = "flask"
    /\ req.pc \in {"idle", "done"}
    /\ LET r == [ReqIdle EXCEPT !.button_id = button_id, !.target_ids = target_ids]
       IN  IF button_id = <<>> \/ button_id \notin DOMAIN BUTTONS_BY_ID
           THEN req' = [r EXCEPT !.pc = "done", !.status = "400",
                                 !.error = "Unknown button_id"]
           ELSE req' = [r EXCEPT !.pc = "resolve",
                                 !.seenButtons = BUTTONS_BY_ID,
                                 !.button = BUTTONS_BY_ID[button_id],
                                 !.command_delay_ms = CONFIG.settings.command_delay_ms]
    /\ UNCHANGED <<prog, CONFIG, CAMERAS_BY_ID, BUTTONS_BY_ID, loader>>
    /\ UNCHANGED <<tkVars, recVars>>

\* lines 295-299 without the check of lines 296-297
RunButtonResolveKeepsEmpty ==
    /\ prog = "flask"
    /\ req.pc = "resolve"
    /\ \E r \in ResolveButtonTargets(req.button, req.target_ids, CONFIG, CAMERAS_BY_ID) :
        LET q == [req EXCEPT !.seenButtons = EmptyDict,
                             !.seenCameras = CONFIG.cameras,
                             !.sawOneGeneration =
                                OneGeneration(req.seenButtons, CONFIG.cameras,
                                              CAMERAS_BY_ID)]
        IN  IF r.raised
            THEN req' = [q EXCEPT !.pc = "done", !.status = "500", !.error = "KeyError"]
            ELSE req' = [q EXCEPT !.pc = "loop", !.resolved = TRUE,
                                  !.targets = r.targets, !.idx = 1]
    /\ UNCHANGED <<prog, CONFIG, CAMERAS_BY_ID, BUTTONS_BY_ID, loader>>
    /\ UNCHANGED <<tkVars, recVars>>

\* lines 295-299
RunButtonResolve ==
    /\ prog = "flask"
    /\ req.pc = "resolve"
    /\ \E r \in ResolveButtonTargets(req.button, req.target_ids, CONFIG, CAMERAS_BY_ID) :
        LET q == [req EXCEPT !.seenButtons = EmptyDict,
                             !.seenCameras = CONFIG.cameras,
                             !.sawOneGeneration =
                                OneGeneration(req.seenButtons, CONFIG.cameras,
                                              CAMERAS_BY_ID)]
        IN  IF r.raised
            THEN req' = [q EXCEPT !.pc = "done", !.status = "500", !.error = "KeyError"]
            ELSE IF r.targets = <<>>
            THEN req' = [q EXCEPT !.pc = "done", !.status = "400", !.resolved = TRUE,
                                  !.error = "No target cameras for this button"]
            ELSE req' = [q EXCEPT !.pc = "loop", !.resolved = TRUE,
                                  !.targets = r.targets, !.idx = 1]
    /\ UNCHANGED <<prog, CONFIG, CAMERAS_BY_ID, BUTTONS_BY_ID, loader>>
    /\ UNCHANGED <<tkVars, recVars>>

\* lines 301-302 without `idx > 0`: a delay before the first camera too
PaceEveryCamera(q) ==
    IF q.command_delay_ms > 0
    THEN [q EXCEPT !.wire = Append(@, [kind |-> "sleep", ms |-> q.command_delay_ms,
                                       url |-> <<>>, outcome |-> "None"])]
    ELSE q

\* lines 300-306: one pass of the loop
Pace(q) ==
    IF q.idx > 1 /\ q.command_delay_ms > 0
    THEN [q EXCEPT !.wire = Append(@, [kind |-> "sleep", ms |-> q.command_delay_ms,
                                       url |-> <<>>, outcome |-> "None"])]
    ELSE q

\* lines 300-306 with a loop that ends at the first camera that fails
SendOneStopsOnFailure(q, outcome) ==
    LET cam == q.targets[q.idx]
    IN  [q EXCEPT !.wire = Append(@, [kind |-> "request", ms |-> 0,
                                      url |-> cam.url, outcome |-> outcome]),
                  !.results = Append(@, SendCameraRequest(cam, outcome)),
                  !.idx = IF outcome = "success" THEN @ + 1 ELSE Len(q.targets) + 1]

SendOne(q, outcome) ==
    LET cam == q.targets[q.idx]
    IN  [q EXCEPT !.wire = Append(@, [kind |-> "request", ms |-> 0,
                                      url |-> cam.url, outcome |-> outcome]),
                  !.results = Append(@, SendCameraRequest(cam, outcome)),
                  !.idx = @ + 1]

RunButtonSend ==
    /\ prog = "flask"
    /\ req.pc = "loop"
    /\ req.idx <= Len(req.targets)
    /\ \E outcome \in Outcomes : req' = SendOne(Pace(req), outcome)
    /\ UNCHANGED <<prog, CONFIG, CAMERAS_BY_ID, BUTTONS_BY_ID, loader>>
    /\ UNCHANGED <<tkVars, recVars>>

\* lines 308-309 reached only once every camera has answered ok
RunButtonRespondWhenAllOk ==
    /\ prog = "flask"
    /\ req.pc = "loop"
    /\ req.idx > Len(req.targets)
    /\ AllOk(req.results)
    /\ req' = [req EXCEPT !.pc = "done", !.status = "200", !.ok = AllOk(req.results)]
    /\ UNCHANGED <<prog, CONFIG, CAMERAS_BY_ID, BUTTONS_BY_ID, loader>>
    /\ UNCHANGED <<tkVars, recVars>>

\* lines 308-309
RunButtonRespond ==
    /\ prog = "flask"
    /\ req.pc = "loop"
    /\ req.idx > Len(req.targets)
    /\ req' = [req EXCEPT !.pc = "done", !.status = "200", !.ok = AllOk(req.results)]
    /\ UNCHANGED <<prog, CONFIG, CAMERAS_BY_ID, BUTTONS_BY_ID, loader>>
    /\ UNCHANGED <<tkVars, recVars>>

TkUnused ==
    /\ cameras = <<>>
    /\ gen = 0
    /\ ctxs = <<>>
    /\ up = {}
    /\ stack = <<>>
    /\ app = 0
    /\ lastOp = 0

RecUnused == ctl = 0

InitFlask ==
    /\ prog = "flask"
    /\ \E g \in Loadable :
        /\ CONFIG = FullLoad(g).CONFIG
        /\ CAMERAS_BY_ID = FullLoad(g).CAMERAS_BY_ID
        /\ BUTTONS_BY_ID = FullLoad(g).BUTTONS_BY_ID
        /\ loader = LoaderIdle
    /\ req = ReqIdle
    /\ TkUnused
    /\ RecUnused

NextFlask ==
    \/ \E g \in ConfigIds : ReloadBegin(g)
    \/ ReloadCameraStep
    \/ ReloadButtonStep
    \/ \E b \in ButtonIdInputs, t \in TargetIdInputs : RunButtonBegin(b, t)
    \/ RunButtonResolve
    \/ RunButtonSend
    \/ RunButtonRespond

SpecFlask == InitFlask /\ [][NextFlask]_vars

(***************************************************************************)
(* Claims about src/testgpt/MultiVeniceTool.py                             *)
(***************************************************************************)
Responded200 == prog = "flask" /\ req.pc = "done" /\ req.status = "200"

\* the requests of the wire, without the sleeps
IsRequest(e) == e.kind = "request"
Requests(wire) == SelectSeq(wire, IsRequest)

\* C3: a handler that runs while load_config executes reads BUTTONS_BY_ID,
\* CONFIG["cameras"] and CAMERAS_BY_ID of one generation: all three are the
\* registry of one completed load, never a partly built one.
C3_ReaderSeesOneGeneration ==
    (prog = "flask" /\ req.pc \in {"loop", "done"}) => req.sawOneGeneration

\* the registry list restricted to the cameras of `targets`
RegistryOrder(cams, targets) ==
    LET Targeted(c) == c \in Range(targets)
    IN  SelectSeq(cams, Targeted)

\* C4: the results of api_run_button list the targeted cameras in registry
\* (configuration) order, restricted to the resolved target set.
C4_ResultsInRegistryOrder ==
    Responded200 =>
        [i \in 1..Len(req.results) |-> req.results[i].camera_id]
            = [i \in 1..Len(RegistryOrder(req.seenCameras, req.targets)) |->
                    RegistryOrder(req.seenCameras, req.targets)[i].id]

\* the cameras the button allows, as the claim words it: every registered
\* camera for "all", else those whose id or name equals a targets entry
\* ignoring case
ClaimedAllowed(button, cams) ==
    IF button.targets.all
    THEN Range(cams)
    ELSE {c \in Range(cams) :
            \E t \in Range(button.targets.list) :
                Lower(c.id) = Lower(t) \/ Lower(c.name) = Lower(t)}

ClaimedTargets(button, requested_ids, cams) ==
    IF requested_ids = <<>>
    THEN ClaimedAllowed(button, cams)
    ELSE {c \in ClaimedAllowed(button, cams) : c.id \in Range(requested_ids)}

\* C5: resolve_button_targets returns exactly the cameras the button allows
\* that are also in the requested id list when that list is not empty.
C5_ResolveReturnsAllowedAndRequested ==
    (prog = "flask" /\ req.pc \in {"loop", "done"} /\ req.button # NoButton) =>
        /\ req.resolved
        /\ Range(req.targets) = ClaimedTargets(req.button, req.target_ids, req.seenCameras)

\* C1 for api_run_button: the response lists one result per target, in the
\* targets' order, and result i says what the i-th request met (the camera's
\* own answer), whatever the other requests met.
C1_Flask ==
    Responded200 =>
        /\ Len(req.results) = Len(req.targets)
        /\ Len(Requests(req.wire)) = Len(req.targets)
        /\ \A i \in 1..Len(req.targets) :
            /\ req.results[i].camera_id = req.targets[i].id
            /\ Requests(req.wire)[i].url = req.targets[i].url
            /\ req.results[i].ok = (Requests(req.wire)[i].outcome = "success")

C1_FlaskWitness ==
    /\ Responded200
    /\ Len(req.targets) = 3
    /\ req.results[1].ok
    /\ ~req.results[2].ok
    /\ req.results[3].ok
    /\ Requests(req.wire)[2].outcome = "exception"

\* C6 for api_run_button: an empty resolved target set ends the call with
\* HTTP 400, ok=false, and nothing was sent to any camera.
C6_Flask ==
    (prog = "flask" /\ req.resolved /\ req.targets = <<>>) =>
        /\ req.pc = "done"
        /\ req.status = "400"
        /\ ~req.ok
        /\ req.wire = <<>>

\* requested ids disjoint from the button's allowed targets
C6_FlaskWitness ==
    /\ prog = "flask"
    /\ req.resolved
    /\ req.targets = <<>>
    /\ req.target_ids # <<>>
    /\ AllowedIds(req.button, [cameras |-> req.seenCameras], EmptyDict) # {}
    /\ req.status = "400"

\* the button ids no configuration file defines
NeverConfigured(button_id) ==
    \A g \in ConfigIds : \A n \in 0..Len(RawConfigs[g].buttons) :
        button_id \notin DOMAIN ButtonsAfter(RawConfigs[g].buttons, n).byId

\* C7: a missing or unknown button_id is answered with HTTP 400 and ok=false,
\* before targets are resolved and before anything is sent to a camera.
C7_UnknownButtonIs400 ==
    (prog = "flask" /\ req.pc # "idle"
        /\ (req.button_id = <<>> \/ NeverConfigured(req.button_id))) =>
        /\ req.pc = "done"
        /\ req.status = "400"
        /\ ~req.ok
        /\ req.error = "Unknown button_id"
        /\ ~req.resolved
        /\ req.wire = <<>>

C7_Witness ==
    /\ prog = "flask"
    /\ req.pc = "done"
    /\ req.button_id = <<"q">>
    /\ req.status = "400"
    /\ DOMAIN BUTTONS_BY_ID # {}

\* C8 for api_run_button: the response's ok is true exactly when every request
\* of the run was answered with success, and each result keeps its own ok.
C8_Flask ==
    Responded200 =>
        /\ req.ok = (\A i \in 1..Len(req.results) : req.results[i].ok)
        /\ req.ok = (\A i \in 1..Len(Requests(req.wire)) :
                        Requests(req.wire)[i].outcome = "success")
        /\ \A i \in 1..Len(req.results) :
            req.results[i].ok = (Requests(req.wire)[i].outcome = "success")

\* a partial failure: not ok overall, the camera that succeeded reported ok
C8_FlaskWitness ==
    /\ Responded200
    /\ ~req.ok
    /\ \E i, j \in 1..Len(req.results) : req.results[i].ok /\ ~req.results[j].ok

(***************************************************************************)
(* src/MultiVeniceTool.py: configuration                                   *)
(***************************************************************************)
MaxReloads == 1     \* reload_cameras calls in one run
MaxCtx == 2         \* browser contexts created in one run
MaxDepth == 2       \* _connect_all_cameras calls nested through root.update()

\* an entry of `cameras:`; a key that is absent is ""
TkEntry(name, ip, username, password) ==
    [name |-> name, ip |-> ip, username |-> username, password |-> password]

TkConfigs == <<
    [exists |-> TRUE,
     cameras |-> <<TkEntry("A", "ip1", "admin", "pw1"), TkEntry("B", "ip2", "admin", "pw1")>>],
    [exists |-> TRUE,
     cameras |-> <<TkEntry("A", "ip1", "admin", "pw2"), TkEntry("B", "", "admin", "pw1")>>],
    [exists |-> FALSE, cameras |-> <<>>]
>>

Ips == {"ip1", "ip2"}

\* Camera(...) as the dataclass builds it, and the card's status label as
\* create_camera_card builds it (lines 27-37, 284-289)
Camera(e) ==
    [name |-> e.name, ip |-> e.ip, username |-> e.username, password |-> e.password,
     context |-> 0, page |-> 0, status |-> "offline"]

RECURSIVE LoadCamerasFrom(_, _)
\* ConfigManager.load_cameras, lines 67-82, over the first n entries: a missing
\* ip, username or password raises KeyError and the entry is skipped
LoadCamerasFrom(entries, n) ==
    IF n = 0 THEN [cameras |-> <<>>, errors |-> <<>>]
    ELSE LET p == LoadCamerasFrom(entries, n - 1)
             e == entries[n]
         IN  IF e.ip = "" \/ e.username = "" \/ e.password = ""
             THEN [cameras |-> p.cameras, errors |-> Append(p.errors, n)]
             ELSE [cameras |-> Append(p.cameras, Camera(e)), errors |-> p.errors]

\* ConfigManager.load_cameras, lines 52-82
LoadCameras(cfg) ==
    IF ~cfg.exists
    THEN [cameras |-> <<>>, errors |-> <<0>>]
    ELSE LoadCamerasFrom(cfg.cameras, Len(cfg.cameras))

(***************************************************************************)
(* BrowserManager                                                          *)
(*                                                                         *)
(* A context is "open" (usable), "closed" (the app closed it) or "defunct" *)
(* (its window or target is gone: every call on it or its page raises).    *)
(* Context c's page is page c.                                             *)
(***************************************************************************)
NewContext(cam) ==
    [st |-> "open", username |-> cam.username, password |-> cam.password, ip |-> cam.ip]

\* context.close(): an open context closes; on any other the call raises
CloseContext(cs, c) == [cs EXCEPT ![c].st = IF @ = "open" THEN "closed" ELSE @]
CloseRaises(cs, c) == cs[c].st # "open"

\* page.reload / page.goto / page.evaluate
PageAlive(cs, p) == p # 0 /\ cs[p].st = "open"
ReloadSucceeds(cs, cam, upset) == PageAlive(cs, cam.page) /\ cam.ip \in upset

\* what a handler call did: for connect_camera the branch it took ("refreshed",
\* "connected", "failed", "nobrowser"), the context it closed, whether close
\* raised and the context it created; for toggle_recording the per-camera
\* results and the dialog shown; for _periodic_status_check what check_alive
\* returned for each camera
NoOp ==
    [op |-> "none", kind |-> "none", closed |-> 0, closeRaised |-> FALSE,
     created |-> 0, results |-> <<>>, dialog |-> "none"]

ConnectLog == [NoOp EXCEPT !.op = "connect_camera"]

\* connect_camera, lines 163-232 ("Full reconnect"): close the camera's
\* context, swallowing what close raises; create a context and a page; load
\* the camera's UI; store context and page only after the page loaded
FullReconnect(cam, cs, upset) ==
    LET closing == cam.context
        raised == closing # 0 /\ CloseRaises(cs, closing)
        cs1 == IF closing # 0 THEN CloseContext(cs, closing) ELSE cs
        cs2 == Append(cs1, NewContext(cam))
        new == Len(cs2)
        log == [ConnectLog EXCEPT !.closed = closing, !.closeRaised = raised,
                                  !.created = new]
    IN  IF cam.ip \in upset
        THEN [cam |-> [cam EXCEPT !.context = new, !.page = new],
              ctxs |-> cs2, success |-> TRUE,
              log |-> [log EXCEPT !.kind = "connected"]]
        ELSE [cam |-> [cam EXCEPT !.context = 0, !.page = 0],
              ctxs |-> cs2, success |-> FALSE,
              log |-> [log EXCEPT !.kind = "failed"]]

\* connect_camera without lines 155-161: it never tries the reload
ConnectCameraAlwaysRecreates(cam, refresh, cs, upset, browser) ==
    IF ~browser
    THEN [cam |-> cam, ctxs |-> cs, success |-> FALSE,
          log |-> [ConnectLog EXCEPT !.kind = "nobrowser"]]
    ELSE FullReconnect(cam, cs, upset)

\* connect_camera without the try/except of lines 165-168: what close raises
\* reaches the outer handler of lines 229-232
ConnectCameraCloseErrorAborts(cam, refresh, cs, upset, browser) ==
    IF ~browser
    THEN [cam |-> cam, ctxs |-> cs, success |-> FALSE,
          log |-> [ConnectLog EXCEPT !.kind = "nobrowser"]]
    ELSE IF refresh /\ cam.page # 0 /\ cam.context # 0 /\ ReloadSucceeds(cs, cam, upset)
    THEN [cam |-> cam, ctxs |-> cs, success |-> TRUE,
          log |-> [ConnectLog EXCEPT !.kind = "refreshed"]]
    ELSE IF cam.context # 0 /\ CloseRaises(cs, cam.context)
    THEN [cam |-> cam, ctxs |-> cs, success |-> FALSE,
          log |-> [ConnectLog EXCEPT !.kind = "failed", !.closed = cam.context,
                                     !.closeRaised = TRUE]]
    ELSE FullReconnect(cam, cs, upset)

\* connect_camera, lines 148-232: the camera, the contexts and what the call did
ConnectCamera(cam, refresh, cs, upset, browser) ==
    IF ~browser
    THEN [cam |-> cam, ctxs |-> cs, success |-> FALSE,
          log |-> [ConnectLog EXCEPT !.kind = "nobrowser"]]
    ELSE IF refresh /\ cam.page # 0 /\ cam.context # 0 /\ ReloadSucceeds(cs, cam, upset)
    THEN [cam |-> cam, ctxs |-> cs, success |-> TRUE,
          log |-> [ConnectLog EXCEPT !.kind = "refreshed"]]
    ELSE FullReconnect(cam, cs, upset)

\* BrowserManager.toggle_recording, lines 234-245
\* `raises`: the click raised for a reason of its own (the button is not in
\* the document, the call timed out) although the page is there
ToggleCamera(cam, cs, raises) == cam.page # 0 /\ PageAlive(cs, cam.page) /\ ~raises

\* check_alive without the probe of lines 251-255
CheckAliveTrustsPage(cam, cs) == cam.page # 0

\* check_alive, lines 247-255: page.evaluate("1") raises exactly when the page
\* is gone, and the bare except turns whatever it raises into False
CheckAlive(cam, cs) == cam.page # 0 /\ PageAlive(cs, cam.page)

\* _set_camera_status that also drops the session of an offline camera
SetCameraStatusDropsSession(cam, online) ==
    [cam EXCEPT !.status = IF online THEN "online" ELSE "offline",
                !.page = IF online THEN @ ELSE 0,
                !.context = IF online THEN @ ELSE 0]

\* _set_camera_status, lines 531-535
SetCameraStatus(cam, online) ==
    [cam EXCEPT !.status = IF online THEN "online" ELSE "offline"]

\* _update_status_summary, lines 537-540
StatusSummary(cams) ==
    [online |-> Cardinality({i \in 1..Len(cams) : cams[i].page # 0}),
     total |-> Len(cams)]

(***************************************************************************)
(* MultiVeniceToolApp                                                      *)
(*                                                                         *)
(* Tk runs one handler at a time, except that _connect_all_cameras calls   *)
(* root.update() after each camera (line 526), which runs every pending    *)
(* event handler inside the loop. `stack` holds the _connect_all_cameras   *)
(* calls in progress, innermost last; each iterates the list object that   *)
(* was self.cameras when it started (cameras[frame.gen]).                  *)
(***************************************************************************)
Gens == 0..MaxReloads

FlaskUnused ==
    /\ CONFIG = MakeConfig(0, <<>>, <<>>)
    /\ CAMERAS_BY_ID = EmptyDict
    /\ BUTTONS_BY_ID = EmptyDict
    /\ loader = LoaderIdle
    /\ req = ReqIdle

\* the state _initialize leaves (lines 449-462): browser started, cameras
\* loaded, the connect timer and the status-check timer pending
InitTk ==
    /\ prog = "tk"
    /\ \E c \in 1..Len(TkConfigs) :
        cameras = [g \in Gens |-> IF g = 0 THEN LoadCameras(TkConfigs[c]).cameras ELSE <<>>]
    /\ gen = 0
    /\ ctxs = <<>>
    /\ up \in SUBSET Ips
    /\ stack = <<>>
    /\ app = [browser |-> TRUE, playwright |-> TRUE, engine |-> TRUE,
              closed |-> FALSE, connectTimer |-> TRUE,
              checkTimers |-> 1, summary |-> StatusSummary(cameras[0])]
    /\ lastOp = NoOp
    /\ FlaskUnused
    /\ RecUnused

\* an event handler can start: from mainloop, or from root.update() after a
\* camera of the innermost _connect_all_cameras loop
CanDispatch ==
    /\ prog = "tk"
    /\ ~app.closed
    /\ stack # <<>> => stack[Len(stack)].idx >= 1

Top == stack[Len(stack)]

Push(refresh) == Append(stack, [gen |-> gen, idx |-> 0, refresh |-> refresh])

\* the list objects still referenced: self.cameras and the loops' lists
Collect(cams, g, st) ==
    [x \in Gens |-> IF x = g \/ \E i \in 1..Len(st) : st[i].gen = x THEN cams[x] ELSE <<>>]

\* root.after(200, self._connect_all_cameras), line 461
TimerConnectAll ==
    /\ CanDispatch
    /\ app.connectTimer
    /\ Len(stack) < MaxDepth
    /\ stack' = Push(FALSE)
    /\ app' = [app EXCEPT !.connectTimer = FALSE]
    /\ UNCHANGED <<prog, cameras, gen, ctxs, up, lastOp>>
    /\ UNCHANGED <<flaskVars, recVars>>

\* reconnect_all, lines 582-584
ReconnectAll ==
    /\ CanDispatch
    /\ Len(stack) < MaxDepth
    /\ stack' = Push(TRUE)
    /\ UNCHANGED <<prog, cameras, gen, ctxs, up, app, lastOp>>
    /\ UNCHANGED <<flaskVars, recVars>>

\* _connect_all_cameras, lines 520-526: one camera of the innermost loop.
\* A loop whose list is no longer self.cameras holds cameras whose status
\* label _rebuild_camera_list destroyed: _set_camera_status raises TclError and
\* the handler ends there.
ConnectStep ==
    /\ prog = "tk"
    /\ ~app.closed
    /\ stack # <<>>
    /\ Top.idx < Len(cameras[Top.gen])
    /\ LET k == Top.idx + 1
           r == ConnectCamera(cameras[Top.gen][k], Top.refresh, ctxs, up, app.browser)
           stale == Top.gen # gen
           st1 == IF stale THEN SubSeq(stack, 1, Len(stack) - 1)
                  ELSE [stack EXCEPT ![Len(stack)].idx = k]
           cams1 == [cameras EXCEPT ![Top.gen][k] =
                        IF stale THEN r.cam ELSE SetCameraStatus(r.cam, r.success)]
       IN  /\ Len(r.ctxs) <= MaxCtx
           /\ ctxs' = r.ctxs
           /\ lastOp' = r.log
           /\ stack' = st1
           /\ cameras' = Collect(cams1, gen, st1)
    /\ UNCHANGED <<prog, gen, up, app>>
    /\ UNCHANGED <<flaskVars, recVars>>

\* _connect_all_cameras, lines 528-529: the loop is over
ConnectDone ==
    /\ prog = "tk"
    /\ ~app.closed
    /\ stack # <<>>
    /\ Top.idx = Len(cameras[Top.gen])
    /\ stack' = SubSeq(stack, 1, Len(stack) - 1)
    /\ cameras' = Collect(cameras, gen, stack')
    /\ app' = [app EXCEPT !.summary = StatusSummary(cameras[gen])]
    /\ UNCHANGED <<prog, gen, ctxs, up, lastOp>>
    /\ UNCHANGED <<flaskVars, recVars>>

\* reload_cameras, line 560: {cam.ip: cam for cam in self.cameras}; a later
\* camera with the same ip replaces an earlier one
OldCameraAt(old, ip) ==
    LET is == {i \in 1..Len(old) : old[i].ip = ip}
    IN  old[CHOOSE i \in is : \A j \in is : j <= i]

\* reload_cameras, lines 563-569, without `cam.page = old_cam.page`
HandOverContextOnly(cam, old) ==
    IF \E i \in 1..Len(old) : old[i].ip = cam.ip
    THEN [cam EXCEPT !.context = OldCameraAt(old, cam.ip).context]
    ELSE cam

\* reload_cameras, lines 563-569
HandOver(cam, old) ==
    IF \E i \in 1..Len(old) : old[i].ip = cam.ip
    THEN LET o == OldCameraAt(old, cam.ip)
             c == [cam EXCEPT !.context = o.context, !.page = o.page]
         IN  IF c.page # 0 THEN SetCameraStatus(c, TRUE) ELSE c
    ELSE cam

\* reload_cameras, lines 571-578: the contexts the removal loop closes
RemovedContexts(old, new) ==
    {OldCameraAt(old, ip).context : ip \in
        {old[i].ip : i \in 1..Len(old)} \ {new[i].ip : i \in 1..Len(new)}} \ {0}

\* reload_cameras, lines 556-580, up to the call of _connect_all_cameras
ReloadCameras(c) ==
    /\ CanDispatch
    /\ Len(stack) < MaxDepth
    /\ gen < MaxReloads
    /\ LET old == cameras[gen]
           loaded == LoadCameras(TkConfigs[c]).cameras
           new == [i \in 1..Len(loaded) |-> HandOver(loaded[i], old)]
           st1 == Append(stack, [gen |-> gen + 1, idx |-> 0, refresh |-> TRUE])
       IN  /\ gen' = gen + 1
           /\ cameras' = Collect([cameras EXCEPT ![gen + 1] = new], gen + 1, st1)
           /\ ctxs' = [x \in 1..Len(ctxs) |->
                        IF x \in RemovedContexts(old, new)
                        THEN CloseContext(ctxs, x)[x] ELSE ctxs[x]]
           /\ stack' = st1
           /\ app' = [app EXCEPT !.summary = StatusSummary(loaded)]
    /\ UNCHANGED <<prog, up, lastOp>>
    /\ UNCHANGED <<flaskVars, recVars>>

\* toggle_recording, lines 595-601: the log line of each camera, in order
ToggleResults(cams, cs, fails) ==
    [i \in 1..Len(cams) |->
        [name |-> cams[i].name, ok |-> ToggleCamera(cams[i], cs, i \in fails)]]

\* toggle_recording, lines 586-609, when the clicks of the cameras of `fails`
\* raise for a reason of their own
ToggleRecordingWith(fails) ==
    /\ CanDispatch
    /\ LET cams == cameras[gen]
           res == ToggleResults(cams, ctxs, fails)
       IN  IF cams = <<>>
           THEN /\ lastOp' = [NoOp EXCEPT !.op = "toggle_recording",
                                              !.dialog = "No Cameras"]
                /\ UNCHANGED cameras
           ELSE /\ cameras' = [cameras EXCEPT ![gen] =
                                [i \in 1..Len(cams) |->
                                    IF res[i].ok THEN cams[i]
                                    ELSE SetCameraStatus(cams[i], FALSE)]]
                /\ lastOp' = [NoOp EXCEPT
                            !.op = "toggle_recording",
                            !.results = res,
                            !.dialog = IF \E i \in 1..Len(res) : ~res[i].ok
                                       THEN "Recording Toggle Issues" ELSE "Success"]
    /\ UNCHANGED <<prog, gen, ctxs, up, stack, app>>
    /\ UNCHANGED <<flaskVars, recVars>>

\* toggle_recording, lines 586-609
ToggleRecording ==
    /\ prog = "tk"
    /\ \E fails \in SUBSET (1..Len(cameras[gen])) : ToggleRecordingWith(fails)

\* _periodic_status_check, lines 549-550: check_alive of each camera, in order
ProbeResults(cams, cs) ==
    [i \in 1..Len(cams) |-> [name |-> cams[i].name, ok |-> CheckAlive(cams[i], cs)]]

\* _periodic_status_check that returns after the loop when a camera is dead,
\* before line 554
PeriodicStatusCheckStopsOnDead ==
    /\ CanDispatch
    /\ app.checkTimers > 0
    /\ LET cams == cameras[gen]
       IN  cameras' = [cameras EXCEPT ![gen] =
                        [i \in 1..Len(cams) |->
                            IF CheckAlive(cams[i], ctxs) THEN cams[i]
                            ELSE SetCameraStatus(cams[i], FALSE)]]
    /\ app' = [app EXCEPT !.summary = StatusSummary(cameras[gen]),
                          !.checkTimers =
                            IF \A i \in 1..Len(cameras[gen]) :
                                    CheckAlive(cameras[gen][i], ctxs)
                            THEN (@ - 1) + 1 ELSE @ - 1]
    /\ lastOp' = [NoOp EXCEPT !.op = "status_check",
                              !.results = ProbeResults(cameras[gen], ctxs)]
    /\ UNCHANGED <<prog, gen, ctxs, up, stack>>
    /\ UNCHANGED <<flaskVars, recVars>>

\* _periodic_status_check, lines 548-554
PeriodicStatusCheck ==
    /\ CanDispatch
    /\ app.checkTimers > 0
    /\ LET cams == cameras[gen]
       IN  cameras' = [cameras EXCEPT ![gen] =
                        [i \in 1..Len(cams) |->
                            IF CheckAlive(cams[i], ctxs) THEN cams[i]
                            ELSE SetCameraStatus(cams[i], FALSE)]]
    \* line 554: the timer that fired is replaced by the next one
    /\ app' = [app EXCEPT !.summary = StatusSummary(cameras[gen]),
                          !.checkTimers = (@ - 1) + 1]
    /\ lastOp' = [NoOp EXCEPT !.op = "status_check",
                              !.results = ProbeResults(cameras[gen], ctxs)]
    /\ UNCHANGED <<prog, gen, ctxs, up, stack>>
    /\ UNCHANGED <<flaskVars, recVars>>

\* on_close, lines 611-615; BrowserManager.stop, lines 109-120: closing the
\* browser closes its contexts. The loops in progress end at their next
\* self.log, whose widget root.destroy() destroyed.
\* BrowserManager.stop, lines 109-120. `engine` is the playwright driver
\* process: it runs until playwright.stop() is called. When browser.close()
\* raises the browser and its contexts stay as they are, the except clause
\* is entered and playwright.stop() is not reached.
BrowserManagerStop(a, cs, closeRaises) ==
    IF closeRaises
    THEN [app |-> [a EXCEPT !.browser = FALSE, !.playwright = FALSE], ctxs |-> cs]
    ELSE [app |-> [a EXCEPT !.browser = FALSE, !.playwright = FALSE,
                            !.engine = FALSE],
          ctxs |-> [x \in 1..Len(cs) |-> CloseContext(cs, x)[x]]]

OnClose ==
    /\ CanDispatch
    /\ \E closeRaises \in BOOLEAN :
        LET r == BrowserManagerStop(app, ctxs, closeRaises)
        IN  /\ ctxs' = r.ctxs
            /\ app' = [r.app EXCEPT !.closed = TRUE]
    /\ stack' = <<>>
    /\ cameras' = Collect(cameras, gen, <<>>)
    /\ UNCHANGED <<prog, gen, up, lastOp>>
    /\ UNCHANGED <<flaskVars, recVars>>

\* environment: the window of a camera's context is closed, or its target
\* crashes
ContextDies(c) ==
    /\ prog = "tk"
    /\ ~app.closed
    /\ c \in 1..Len(ctxs)
    /\ ctxs[c].st = "open"
    /\ \E i \in 1..Len(cameras[gen]) : cameras[gen][i].context = c
    /\ ctxs' = [ctxs EXCEPT ![c].st = "defunct"]
    /\ UNCHANGED <<prog, cameras, gen, up, stack, app, lastOp>>
    /\ UNCHANGED <<flaskVars, recVars>>

NextTk ==
    \/ TimerConnectAll
    \/ ReconnectAll
    \/ ConnectStep
    \/ ConnectDone
    \/ \E c \in 1..Len(TkConfigs) : ReloadCameras(c)
    \/ ToggleRecordingWith({})
    \/ PeriodicStatusCheck
    \/ OnClose
    \/ \E c \in 1..MaxCtx : ContextDies(c)

\* the app with cameras whose click raises only when the page is gone
SpecTk == InitTk /\ [][NextTk]_vars

\* the app with cameras whose click can also raise on a page that is there
NextTkFlaky ==
    \/ NextTk
    \/ ToggleRecording

SpecTkFlaky == InitTk /\ [][NextTkFlaky]_vars

(***************************************************************************)
(* src/testgpt/multirec.py: VeniceController and ControlApp                *)
(*                                                                         *)
(* The browser launched for CAMERAS[k] is browser k and its page is page   *)
(* k. `reach` is the set of cameras whose UI loads during this run and     *)
(* `crashed` the pages that have died since (environment).                 *)
(***************************************************************************)
\* CAMERAS, lines 38-42
CAMERAS == <<"VENICE A", "VENICE B", "VENICE C">>

\* VeniceController() and the first statement of start, lines 108-118
InitRec ==
    /\ prog = "rec"
    /\ \E r \in SUBSET (1..Len(CAMERAS)) :
        ctl = [pc |-> "start", playwright |-> TRUE, i |-> 0, closeCalls |-> <<>>,
               exit |-> "running",
               browsers |-> <<>>, pages |-> <<>>, cam_infos |-> <<>>,
               open |-> {}, reach |-> r, crashed |-> {}, printed |-> <<>>]
    /\ FlaskUnused
    /\ TkUnused

\* start, lines 120-150, without the browser.close() of line 135
StartCameraLeavesBrowser ==
    /\ prog = "rec"
    /\ ctl.pc = "start"
    /\ ctl.i < Len(CAMERAS)
    /\ LET k == ctl.i + 1
           launched == [ctl EXCEPT !.i = k, !.open = @ \cup {k}]
       IN  ctl' = IF k \in ctl.reach
                  THEN [launched EXCEPT !.browsers = Append(@, k),
                                        !.pages = Append(@, k),
                                        !.cam_infos = Append(@, CAMERAS[k])]
                  ELSE launched
    /\ UNCHANGED <<prog, flaskVars, tkVars>>

\* start, lines 120-150: one camera of the loop. The browser is launched
\* (line 125); when page.goto raises it is closed and the camera is skipped
\* (lines 131-136), otherwise browser, page and camera are appended
StartCamera ==
    /\ prog = "rec"
    /\ ctl.pc = "start"
    /\ ctl.i < Len(CAMERAS)
    /\ LET k == ctl.i + 1
           launched == [ctl EXCEPT !.i = k, !.open = @ \cup {k}]
       IN  ctl' = IF k \in ctl.reach
                  THEN [launched EXCEPT !.browsers = Append(@, k),
                                        !.pages = Append(@, k),
                                        !.cam_infos = Append(@, CAMERAS[k])]
                  ELSE [launched EXCEPT !.open = @ \ {k}]
    /\ UNCHANGED <<prog, flaskVars, tkVars>>

\* start, lines 152-158, then ControlApp.run
StartDone ==
    /\ prog = "rec"
    /\ ctl.pc = "start"
    /\ ctl.i = Len(CAMERAS)
    /\ ctl' = IF ctl.pages = <<>>
              THEN [ctl EXCEPT !.pc = "exited", !.playwright = FALSE, !.exit = "1"]
              ELSE [ctl EXCEPT !.pc = "ui"]
    /\ UNCHANGED <<prog, flaskVars, tkVars>>

\* click_button_all, lines 179-207: the lines it prints
ClickResults(c) ==
    IF ~c.playwright THEN <<>>
    ELSE [j \in 1..Len(c.pages) |->
            [label |-> c.cam_infos[j], ok |-> c.pages[j] \notin c.crashed]]

\* on_start, lines 377-378
OnStart ==
    /\ prog = "rec"
    /\ ctl.pc = "ui"
    /\ ctl' = [ctl EXCEPT !.printed = ClickResults(ctl)]
    /\ UNCHANGED <<prog, flaskVars, tkVars>>

\* VeniceController.stop, lines 162-177: browser.close() is called on every
\* browser of the list (`closeCalls`); the browsers of `bad` raise and stay
\* as they are, the exception is passed over
ControllerStop(c, bad) ==
    IF ~c.playwright THEN c
    ELSE [c EXCEPT !.playwright = FALSE,
                   !.closeCalls = c.browsers,
                   !.open = @ \ (Range(c.browsers) \ bad),
                   !.browsers = <<>>, !.pages = <<>>, !.cam_infos = <<>>]

\* ControlApp.on_close, lines 385-387; a browser whose page crashed may raise
\* when it is closed
RecOnClose ==
    /\ prog = "rec"
    /\ ctl.pc = "ui"
    /\ \E bad \in SUBSET (Range(ctl.browsers) \cap ctl.crashed) :
        ctl' = [ControllerStop(ctl, bad) EXCEPT !.pc = "exited", !.exit = "0"]
    /\ UNCHANGED <<prog, flaskVars, tkVars>>

\* environment: a camera's page crashes or its window is closed
PageCrash(k) ==
    /\ prog = "rec"
    /\ ctl.pc = "ui"
    /\ k \in ctl.open \ ctl.crashed
    /\ ctl' = [ctl EXCEPT !.crashed = @ \cup {k}]
    /\ UNCHANGED <<prog, flaskVars, tkVars>>

NextRec ==
    \/ StartCamera
    \/ StartDone
    \/ OnStart
    \/ RecOnClose
    \/ \E k \in 1..Len(CAMERAS) : PageCrash(k)

SpecRec == InitRec /\ [][NextRec]_vars

(***************************************************************************)
(* The three programs                                                      *)
(***************************************************************************)
Init == InitFlask \/ InitTk \/ InitRec
Next == NextFlask \/ NextTk \/ NextRec
Spec == Init /\ [][Next]_vars

(***************************************************************************)
(* Claims about src/MultiVeniceTool.py and src/testgpt/multirec.py         *)
(***************************************************************************)
\* the camera the innermost _connect_all_cameras loop connects next
ConnectingCam == cameras[Top.gen][Top.idx + 1]

\* a camera with a live page and context whose page reload succeeds
Healthy(cam) == cam.page # 0 /\ cam.context # 0 /\ ReloadSucceeds(ctxs, cam, up)

OpenContextsAt(ip) == {c \in 1..Len(ctxs) : ctxs[c].st = "open" /\ ctxs[c].ip = ip}

\* C2: after any sequence of connect-all, reconnect-all, reload and liveness
\* check, at most one open browser context exists per configured camera.
C2_AtMostOneOpenContextPerCamera ==
    prog = "tk" => \A ip \in Ips : Cardinality(OpenContextsAt(ip)) <= 1

\* toggle_recording over M cameras: M log lines in the cameras' order, line i
\* a success only if camera i's own page took the click, a camera that failed
\* is shown offline and the others are left as they were
C1_TkStep ==
    (ToggleRecording /\ cameras[gen] # <<>>) =>
        /\ Len(lastOp'.results) = Len(cameras[gen])
        /\ \A i \in 1..Len(cameras[gen]) :
            /\ lastOp'.results[i].name = cameras[gen][i].name
            /\ lastOp'.results[i].ok => PageAlive(ctxs, cameras[gen][i].page)
            /\ cameras'[gen][i] =
                IF lastOp'.results[i].ok THEN cameras[gen][i]
                ELSE [cameras[gen][i] EXCEPT !.status = "offline"]

\* click_button_all over M pages: M printed lines in the pages' order, line j
\* an error exactly when page j's own evaluate raised
C1_RecStep ==
    OnStart =>
        /\ Len(ctl'.printed) = Len(ctl.pages)
        /\ \A j \in 1..Len(ctl.pages) :
            /\ ctl'.printed[j].label = ctl.cam_infos[j]
            /\ ctl'.printed[j].ok = (ctl.pages[j] \notin ctl.crashed)

\* C1: in a dispatch over M cameras (api_run_button, toggle_recording,
\* click_button_all) a failure on camera k is recorded as that camera's own
\* failed outcome and every remaining camera is still processed: M outcomes,
\* each one decided by its own camera alone.
C1_FailureStaysWithItsCamera ==
    /\ []C1_Flask
    /\ [][C1_TkStep]_vars
    /\ [][C1_RecStep]_vars

\* toggle_recording: the first of two cameras failed, the second was toggled
C1_TkWitness ==
    /\ prog = "tk"
    /\ lastOp.op = "toggle_recording"
    /\ Len(lastOp.results) = 2
    /\ ~lastOp.results[1].ok
    /\ lastOp.results[2].ok

\* click_button_all: the first of three pages raised, the others were clicked
C1_RecWitness ==
    /\ prog = "rec"
    /\ Len(ctl.printed) = 3
    /\ ~ctl.printed[1].ok
    /\ ctl.printed[2].ok
    /\ ctl.printed[3].ok

\* toggle_recording with no cameras: the "No Cameras" dialog, no camera is
\* asked to toggle and nothing changes
C6_TkStep ==
    (ToggleRecording /\ cameras[gen] = <<>>) =>
        /\ lastOp'.results = <<>>
        /\ lastOp'.dialog = "No Cameras"
        /\ UNCHANGED <<cameras, ctxs>>

\* C6: an empty resolved target set makes api_run_button answer HTTP 400
\* without sending anything to any camera, and toggle_recording with no
\* configured cameras performs no camera action.
C6_EmptyTargetsSendNothing ==
    /\ []C6_Flask
    /\ [][C6_TkStep]_vars

C6_TkWitness ==
    /\ prog = "tk"
    /\ lastOp.op = "toggle_recording"
    /\ lastOp.dialog = "No Cameras"
    /\ cameras[gen] = <<>>

\* toggle_recording: the "Success" dialog exactly when every camera's line is
\* a success, the issues dialog as soon as one failed
C8_Tk ==
    (prog = "tk" /\ lastOp.op = "toggle_recording" /\ lastOp.results # <<>>) =>
        /\ (lastOp.dialog = "Success") =
                (\A i \in 1..Len(lastOp.results) : lastOp.results[i].ok)
        /\ (lastOp.dialog = "Recording Toggle Issues") =
                (\E i \in 1..Len(lastOp.results) : ~lastOp.results[i].ok)

\* C8: the overall ok of a dispatch is true exactly when every per-camera
\* result is ok; a partial failure is never reported as overall success and
\* the cameras that succeeded in it are still reported as succeeded.
C8_OverallOkIsAllOk == C8_Flask /\ C8_Tk

C8_TkWitness ==
    /\ prog = "tk"
    /\ lastOp.dialog = "Recording Toggle Issues"
    /\ \E i \in 1..Len(lastOp.results) : lastOp.results[i].ok

C9_Step ==
    (ConnectStep /\ Top.refresh /\ Healthy(ConnectingCam)) =>
        /\ ctxs' = ctxs
        /\ lastOp'.kind = "refreshed"
        /\ lastOp'.created = 0
        /\ Top.gen = gen =>
            /\ cameras'[gen][Top.idx + 1].context = ConnectingCam.context
            /\ cameras'[gen][Top.idx + 1].page = ConnectingCam.page

\* C9: connect_camera, not forced to recreate, on a camera that has a live
\* page and context and whose reload succeeds creates no browser context: the
\* camera holds the same context and page after the call.
C9_HealthyCameraKeepsItsContext == [][C9_Step]_vars

\* a connected camera was connected again and kept its open context
C9_Witness ==
    /\ prog = "tk"
    /\ lastOp.op = "connect_camera"
    /\ lastOp.kind = "refreshed"
    /\ \E i \in 1..Len(cameras[gen]) :
        /\ cameras[gen][i].context # 0
        /\ cameras[gen][i].page = cameras[gen][i].context
        /\ ctxs[cameras[gen][i].context].st = "open"

C10_Step ==
    (ConnectStep /\ ~(Top.refresh /\ Healthy(ConnectingCam))) =>
        /\ lastOp'.closed = ConnectingCam.context
        /\ ConnectingCam.context # 0 => ctxs'[ConnectingCam.context].st # "open"
        /\ Len(ctxs') = Len(ctxs) + 1
        /\ lastOp'.created = Len(ctxs')
        /\ ctxs'[Len(ctxs')].st = "open"
        /\ (ConnectingCam.ip \in up) => lastOp'.kind = "connected"
        /\ (ConnectingCam.ip \in up /\ Top.gen = gen) =>
            /\ cameras'[gen][Top.idx + 1].context = Len(ctxs')
            /\ cameras'[gen][Top.idx + 1].page = Len(ctxs')

\* C10: when connect_camera recreates a session it first attempts to close
\* the camera's existing context, and an error raised by that close never
\* prevents the new context from being created and, once its page loaded,
\* stored on the camera.
C10_CloseErrorNeverBlocksRecreate == [][C10_Step]_vars

\* close raised on a defunct context and the camera holds the new, open one
C10_Witness ==
    /\ prog = "tk"
    /\ lastOp.op = "connect_camera"
    /\ lastOp.kind = "connected"
    /\ lastOp.closed # 0
    /\ lastOp.closeRaised
    /\ \E i \in 1..Len(cameras[gen]) :
        /\ cameras[gen][i].context = lastOp.created
        /\ ctxs[lastOp.created].st = "open"

(***************************************************************************)
(* Liveness and status                                                     *)
(***************************************************************************)
C11_Step ==
    PeriodicStatusCheck =>
        /\ Len(lastOp'.results) = Len(cameras[gen])
        /\ \A i \in 1..Len(cameras[gen]) :
            LET cam == cameras[gen][i]
            IN  /\ cam.page = 0 => ~lastOp'.results[i].ok
                /\ (cam.page # 0 /\ ctxs[cam.page].st # "open") => ~lastOp'.results[i].ok
                /\ (cam.page # 0 /\ ctxs[cam.page].st = "open") => lastOp'.results[i].ok
        /\ app'.checkTimers = app.checkTimers

\* C11: check_alive returns false for a camera with no page and for a camera
\* whose probe raises, true only when the probe succeeds, and never raises to
\* its caller: _periodic_status_check gets an answer for every camera and
\* reaches its last line, which schedules the next check.
C11_CheckAliveNeverRaises == [][C11_Step]_vars

\* a status check met a camera without a page and a camera whose page is gone
C11_Witness ==
    /\ prog = "tk"
    /\ lastOp.op = "status_check"
    /\ \E i \in 1..Len(cameras[gen]) :
        /\ cameras[gen][i].page # 0
        /\ ctxs[cameras[gen][i].page].st = "defunct"
        /\ ~lastOp.results[i].ok
    /\ app.checkTimers = 1

StatusOf(ok) == IF ok THEN "online" ELSE "offline"

C12_Step ==
    PeriodicStatusCheck =>
        \A i \in 1..Len(cameras[gen]) :
            cameras'[gen][i].status = StatusOf(lastOp'.results[i].ok)

\* C12: after _periodic_status_check completes, every configured camera's
\* status is what that tick's check_alive returned for it: online if the
\* probe succeeded, offline if it failed.
C12_StatusEqualsProbe == [][C12_Step]_vars

C13_Step ==
    ToggleRecording =>
        \A i \in 1..Len(lastOp'.results) :
            cameras'[gen][i].status = StatusOf(lastOp'.results[i].ok)

\* C13: after toggle_recording has processed a camera, that camera's status
\* matches the outcome of the command: online when it succeeded, offline when
\* it failed.
C13_StatusEqualsOutcome == [][C13_Step]_vars

(***************************************************************************)
(* Configuration build                                                     *)
(***************************************************************************)
\* load_config, lines 65-66 and 69-70: an entry without name or url is passed
\* over with `continue`; nothing is logged, collected or returned for it
SkipWarnings(cam) == <<>>

RECURSIVE WarningsAfter(_, _)
\* what load_config has reported about the first n camera entries
WarningsAfter(raw, n) ==
    IF n = 0 THEN <<>> ELSE WarningsAfter(raw, n - 1) \o SkipWarnings(raw[n])

\* camera entries that lack a required field (a url of slashes only is no url)
MalformedFlask(raw) ==
    {n \in 1..Len(raw) :
        raw[n].kind = "map" /\ (raw[n].name = <<>> \/ RStrip(raw[n].url, "/") = <<>>)}
MalformedTk(entries) ==
    {n \in 1..Len(entries) :
        entries[n].ip = "" \/ entries[n].username = "" \/ entries[n].password = ""}

\* load_config after its camera loop
C14_Flask ==
    (prog = "flask" /\ loader.pc = "buttons") =>
        LET raw == RawConfigs[loader.g].cameras
            K == Cardinality(MalformedFlask(raw))
        IN  /\ Len(loader.cameras) = Len(raw) - K
            /\ Len(WarningsAfter(raw, Len(raw))) = K

\* ConfigManager.load_cameras as reload_cameras calls it
C14_TkStep ==
    \A c \in 1..Len(TkConfigs) :
        (ReloadCameras(c) /\ TkConfigs[c].exists) =>
            LET entries == TkConfigs[c].cameras
                K == Cardinality(MalformedTk(entries))
            IN  /\ Len(cameras'[gen']) = Len(entries) - K
                /\ Len(LoadCameras(TkConfigs[c]).errors) = K

\* C14: a configuration with N camera entries of which K lack a required
\* field builds exactly N-K cameras and exactly K warnings, one per skipped
\* entry (ConfigManager.load_cameras and load_config).
C14_BuildKeepsValidAndWarnsSkipped ==
    /\ []C14_Flask
    /\ [][C14_TkStep]_vars

C15_Step == (ReloadCameraStep \/ ReloadButtonStep) => ~loader'.failed

\* C15: no single malformed camera or button entry makes the configuration
\* build raise: a load_config call that has opened its file goes through every
\* entry and completes.
C15_NoEntryAbortsBuild == [][C15_Step]_vars

C16_FlaskStep ==
    \A g \in ConfigIds :
        (ReloadBegin(g) /\ ~RawConfigs[g].exists) =>
            /\ CONFIG'.cameras = <<>>
            /\ CAMERAS_BY_ID' = EmptyDict

C16_TkStep ==
    \A c \in 1..Len(TkConfigs) :
        (ReloadCameras(c) /\ ~TkConfigs[c].exists) =>
            /\ cameras'[gen'] = <<>>
            /\ Len(LoadCameras(TkConfigs[c]).errors) = 1

\* C16: a (re)load from a configuration file that is missing or cannot be
\* parsed leaves an empty camera registry in effect, with exactly one error.
C16_UnreadableFileGivesEmptyRegistry == [][C16_FlaskStep /\ C16_TkStep]_vars

\* C17: after every successful load_config no two cameras of CONFIG["cameras"]
\* have the same id.
C17_CameraIdsUnique ==
    prog = "flask" =>
        \A i, j \in 1..Len(CONFIG.cameras) :
            CONFIG.cameras[i].id = CONFIG.cameras[j].id => i = j

C18_Step ==
    (/\ RunButtonResolve
     /\ loader.pc = "idle"
     /\ req.button.targets.all
     /\ req.target_ids = <<>>)
    => /\ req'.status # "500"
       /\ Range(req'.targets) = Range(CONFIG.cameras)

\* C18: once the reloads are over, a button with targets "all" run with no
\* requested ids resolves to exactly the cameras of the registry now loaded.
C18_AllResolvesToCurrentRegistry == [][C18_Step]_vars

(***************************************************************************)
(* Pacing                                                                  *)
(***************************************************************************)
IsSleep(w) == w.kind = "sleep"
Sleeps(wire) == SelectSeq(wire, IsSleep)

\* the wire of a dispatch paced by T: request, sleep T, request, sleep T, ...
\* ending with a request; without pacing, requests only
PacedWire(wire, T) ==
    IF T > 0
    THEN \A p \in 1..Len(wire) :
            IF p % 2 = 1 THEN wire[p].kind = "request"
            ELSE wire[p].kind = "sleep" /\ wire[p].ms = T /\ p < Len(wire)
    ELSE Sleeps(wire) = <<>>

\* C19: a dispatch over M cameras with command_delay_ms = T > 0 sleeps T
\* exactly M-1 times, once before each camera except the first and after the
\* request of the camera before it has returned; with T = 0 it never sleeps.
C19_PacingBetweenCameras ==
    prog = "flask" =>
        /\ PacedWire(req.wire, req.command_delay_ms)
        /\ Responded200 =>
            /\ Len(Requests(req.wire)) = Len(req.targets)
            /\ Len(Sleeps(req.wire)) =
                    IF req.command_delay_ms > 0 THEN Len(req.targets) - 1 ELSE 0

C19_Witness ==
    /\ prog = "flask"
    /\ Responded200
    /\ req.command_delay_ms = DelayMs
    /\ Len(req.targets) = 3
    /\ Len(Sleeps(req.wire)) = 2
    /\ req.wire[2].kind = "sleep" /\ req.wire[4].kind = "sleep"

(***************************************************************************)
(* Handlers of the desktop app, one at a time                              *)
(***************************************************************************)
C20_Step ==
    (prog = "tk" /\ stack # <<>>) =>
        /\ ~ \E c \in 1..Len(TkConfigs) : ReloadCameras(c)
        /\ ~ReconnectAll
        /\ ~ToggleRecording
        /\ ~PeriodicStatusCheck
        /\ gen' = gen

\* C20: while _connect_all_cameras is iterating the camera list no
\* reload_cameras, reconnect_all, toggle_recording or _periodic_status_check
\* handler starts, and self.cameras is not replaced.
C20_HandlersNeverOverlap == [][C20_Step]_vars

(***************************************************************************)
(* Shutdown                                                                *)
(***************************************************************************)
C21_TkStep ==
    OnClose =>
        /\ ~app'.browser /\ ~app'.playwright
        /\ ~app'.engine

C21_RecStep ==
    RecOnClose =>
        /\ ~ctl'.playwright /\ ctl'.browsers = <<>>
        /\ ctl'.closeCalls = ctl.browsers

\* C21: shutdown (BrowserManager.stop, VeniceController.stop) tries to release
\* every browser and the playwright engine even when releasing one of them
\* raises, and afterwards holds no browser or playwright handle.
C21_ShutdownReleasesEverything == [][C21_TkStep]_vars /\ [][C21_RecStep]_vars

(***************************************************************************)
(* src/testgpt/MultiVeniceTool.py: GET /api/config                         *)
(*                                                                         *)
(* load_config also stores, with every camera, the credentials it resolved *)
(* for it. The pool puts an `auth:` mapping in `settings` and one in the   *)
(* first camera entry of the file; a key the mapping does not have is      *)
(* Absent.                                                                 *)
(***************************************************************************)
Absent == <<"N", "o", "n", "e">>
AuthValues == {Absent, <<"u", "1">>, <<"p", "1">>}
Auths == [username : AuthValues, password : AuthValues]
NoAuth == [username |-> Absent, password |-> Absent]

\* load_config, lines 76-79: cam_auth.get("username", global_user) and
\* cam_auth.get("password", global_pass)
ResolveAuth(cam_auth, global_auth) ==
    [username |-> IF cam_auth.username = Absent
                  THEN global_auth.username ELSE cam_auth.username,
     password |-> IF cam_auth.password = Absent
                  THEN global_auth.password ELSE cam_auth.password]

\* load_config, lines 72-91: the camera dict with its gui_path (the default
\* "/") and its credentials
CameraDict(c, cam_auth, global_auth) ==
    [id |-> c.id, name |-> c.name, url |-> c.url, gui_path |-> <<"/">>,
     username |-> ResolveAuth(cam_auth, global_auth).username,
     password |-> ResolveAuth(cam_auth, global_auth).password]

\* CONFIG after load_config read file g with settings.auth = global_auth and
\* cameras[0].auth = cam_auth
LoadConfigWithAuth(g, global_auth, cam_auth) ==
    LET c == FullLoad(g).CONFIG
    IN  [c EXCEPT !.cameras =
            [i \in 1..Len(c.cameras) |->
                CameraDict(c.cameras[i], IF i = 1 THEN cam_auth ELSE NoAuth,
                           global_auth)]]

\* api_config that returns the camera dicts as load_config built them
ApiConfigWholeCameras(config) ==
    [settings |-> config.settings,
     cameras |-> config.cameras,
     buttons |-> [i \in 1..Len(config.buttons) |->
                    [id |-> config.buttons[i].id, label |-> config.buttons[i].label,
                     targets |-> config.buttons[i].targets]]]

\* api_config, lines 238-271
ApiConfig(config) ==
    [settings |-> config.settings,
     cameras |-> [i \in 1..Len(config.cameras) |->
                    [id |-> config.cameras[i].id, name |-> config.cameras[i].name,
                     gui_url |-> config.cameras[i].url \o config.cameras[i].gui_path]],
     buttons |-> [i \in 1..Len(config.buttons) |->
                    [id |-> config.buttons[i].id, label |-> config.buttons[i].label,
                     targets |-> config.buttons[i].targets]]]

\* the server after load_config, before any request
InitApiConfig ==
    /\ prog = "flask"
    /\ \E g \in Loadable, global_auth \in Auths, cam_auth \in Auths :
        /\ CONFIG = LoadConfigWithAuth(g, global_auth, cam_auth)
        /\ CAMERAS_BY_ID = FullLoad(g).CAMERAS_BY_ID
        /\ BUTTONS_BY_ID = FullLoad(g).BUTTONS_BY_ID
        /\ req = [pc |-> "idle", file |-> g, summary |-> <<>>]
    /\ loader = LoaderIdle
    /\ TkUnused
    /\ RecUnused

\* GET /api/config
ApiConfigRequest ==
    /\ prog = "flask"
    /\ req.pc = "idle"
    /\ req' = [req EXCEPT !.pc = "done", !.summary = ApiConfig(CONFIG)]
    /\ UNCHANGED <<prog, CONFIG, CAMERAS_BY_ID, BUTTONS_BY_ID, loader>>
    /\ UNCHANGED <<tkVars, recVars>>

NextApiConfig == ApiConfigRequest

SpecApiConfig == InitApiConfig /\ [][NextApiConfig]_vars

\* C22: the summary api_config returns is the same for every two loaded
\* configurations that differ only in credentials (the global auth or a
\* camera's own auth), and no camera of it has a username or password.
C22_SummaryIndependentOfCredentials ==
    (prog = "flask" /\ req.pc = "done") =>
        /\ \A global_auth \in Auths, cam_auth \in Auths :
            ApiConfig(LoadConfigWithAuth(req.file, global_auth, cam_auth)) = req.summary
        /\ \A i \in 1..Len(req.summary.cameras) :
            DOMAIN req.summary.cameras[i] = {"id", "name", "gui_url"}
        /\ DOMAIN req.summary.settings = {"command_delay_ms"}

C22_Witness ==
    /\ prog = "flask"
    /\ req.pc = "done"
    /\ Len(CONFIG.cameras) = 2
    /\ CONFIG.cameras[1].password = <<"p", "1">>
    /\ CONFIG.cameras[2].password = Absent
    /\ CONFIG.cameras[1].username = <<"u", "1">>
    /\ Len(req.summary.cameras) = 2

(***************************************************************************)
(* The status check only observes                                          *)
(***************************************************************************)
C23_Step ==
    PeriodicStatusCheck =>
        /\ ctxs' = ctxs
        /\ gen' = gen
        /\ Len(cameras'[gen]) = Len(cameras[gen])
        /\ \A i \in 1..Len(cameras[gen]) :
            /\ cameras'[gen][i].context = cameras[gen][i].context
            /\ cameras'[gen][i].page = cameras[gen][i].page

\* C23: a run of _periodic_status_check creates, closes, replaces or clears
\* no camera's context or page, whatever check_alive returns.
C23_TickLeavesSessionsAlone == [][C23_Step]_vars

\* a tick found one camera alive and one dead: both still hold their session
C23_Witness ==
    /\ prog = "tk"
    /\ lastOp.op = "status_check"
    /\ Len(lastOp.results) = 2
    /\ \E i, j \in 1..2 :
        /\ lastOp.results[i].ok /\ ~lastOp.results[j].ok
        /\ Len(cameras[gen]) = 2
        /\ cameras[gen][j].page # 0 /\ cameras[gen][j].context # 0
        /\ ctxs[cameras[gen][j].context].st = "defunct"
        /\ cameras[gen][i].page # 0

(***************************************************************************)
(* Sessions at dispatch time                                               *)
(***************************************************************************)
\* the camera has no usable session
NoLiveSession(cam, cs) == cam.page = 0 \/ ~PageAlive(cs, cam.page)

C24_Step ==
    (ToggleRecording /\ cameras[gen] # <<>>) =>
        \A i \in 1..Len(cameras[gen]) :
            NoLiveSession(cameras[gen][i], ctxs) =>
                \* a session is opened for the camera during the dispatch
                /\ \E x \in (Len(ctxs) + 1)..Len(ctxs') :
                        ctxs'[x].ip = cameras[gen][i].ip
                \* and the camera fails only if that could not succeed
                /\ cameras[gen][i].ip \in up => lastOp'.results[i].ok

\* C24: toggle_recording ensures a session for each camera before it clicks:
\* a camera without a live session gets a connect attempt at dispatch time
\* and is recorded as failed only if that attempt fails.
C24_DispatchEnsuresSession == [][C24_Step]_vars

(***************************************************************************)
(* Sessions across reload_cameras                                          *)
(***************************************************************************)
IpsOf(cams) == {cams[j].ip : j \in 1..Len(cams)}

\* an old camera whose ip is still configured: its context and page go, as
\* they are, to exactly one camera of the new list, which has its ip
C25_Kept(old, new) ==
    \A i \in 1..Len(old) :
        (old[i].context # 0 /\ old[i].ip \in IpsOf(new)) =>
            /\ Cardinality({j \in 1..Len(new) : new[j].context = old[i].context}) = 1
            /\ \A j \in 1..Len(new) :
                new[j].context = old[i].context =>
                    new[j].ip = old[i].ip /\ new[j].page = old[i].page
            /\ ctxs'[old[i].context] = ctxs[old[i].context]

\* an old camera whose ip is no longer configured: its context is closed
C25_Removed(old, new) ==
    \A i \in 1..Len(old) :
        (old[i].context # 0 /\ old[i].ip \notin IpsOf(new)) =>
            ctxs'[old[i].context].st # "open"

\* every context still open belongs to a camera of the new list
C25_Owned(new) ==
    \A x \in 1..Len(ctxs') :
        ctxs'[x].st = "open" => \E j \in 1..Len(new) : new[j].context = x

C25_Step ==
    \A c \in 1..Len(TkConfigs) :
        ReloadCameras(c) =>
            /\ C25_Kept(cameras[gen], cameras'[gen'])
            /\ C25_Removed(cameras[gen], cameras'[gen'])
            /\ C25_Owned(cameras'[gen'])

\* C25: reload_cameras hands the live context and page of every camera whose
\* ip is in the old and in the new configuration to exactly one camera of the
\* new list, closes the context of every camera whose ip is gone, and leaves
\* no context open that no camera of the new list owns.
C25_ReloadKeepsOrClosesEverySession == [][C25_Step]_vars

(***************************************************************************)
(* Termination of a dispatch                                               *)
(*                                                                         *)
(* The thread that serves a request keeps running: each of its steps is    *)
(* taken once it can be. requests.request returns or raises within its     *)
(* timeout, so a step of the loop always ends with one of Outcomes.        *)
(***************************************************************************)
\* The loop of lines 299-306 reads only the handler's locals (targets,
\* cmd_cfg, command_delay_ms), so the requests are followed here on a server
\* whose configuration is not being reloaded.
NextDispatch ==
    \/ \E b \in ButtonIdInputs, t \in TargetIdInputs : RunButtonBegin(b, t)
    \/ RunButtonResolve
    \/ RunButtonSend
    \/ RunButtonRespond

SpecDispatchFair ==
    /\ InitFlask
    /\ [][NextDispatch]_vars
    /\ WF_vars(RunButtonResolve)
    /\ WF_vars(RunButtonSend)
    /\ WF_vars(RunButtonRespond)

InLoop == prog = "flask" /\ req.pc = "loop"

Answered ==
    /\ Responded200
    /\ Len(req.results) = Len(req.targets)
    /\ Len(Requests(req.wire)) = Len(req.targets)

\* C26: every dispatch terminates: api_run_button sends one request to each
\* target, a camera that does not answer gives a failed result, and the
\* response is returned.
C26_DispatchTerminates == InLoop ~> Answered

\* the first of three cameras never answered; the other two were still asked
C26_Witness ==
    /\ Answered
    /\ Len(req.targets) = 3
    /\ Requests(req.wire)[1].outcome = "exception"
    /\ ~req.results[1].ok
    /\ req.results[3].ok

(***************************************************************************)
(* The status check recurs                                                 *)
(*                                                                         *)
(* Tk runs a timer that is due the next time the event loop looks at its   *)
(* queue (mainloop, or root.update() inside _connect_all_cameras), however *)
(* many clicks are waiting: strong fairness for the check. The thread that *)
(* runs _connect_all_cameras keeps running: weak fairness for its steps.   *)
(***************************************************************************)
SpecTkFair ==
    /\ SpecTk
    /\ SF_vars(PeriodicStatusCheck)
    /\ WF_vars(ConnectStep)
    /\ WF_vars(ConnectDone)

\* the innermost connect pass cannot go on within MaxCtx contexts
AtContextBound ==
    /\ stack # <<>>
    /\ Top.idx < Len(cameras[Top.gen])
    /\ Len(ConnectCamera(cameras[Top.gen][Top.idx + 1], Top.refresh, ctxs, up,
                         app.browser).ctxs) > MaxCtx

Running == prog = "tk" /\ ~app.closed

C27_OneTimer == Running => app.checkTimers = 1

C27_Step == PeriodicStatusCheck => app'.checkTimers = app.checkTimers

Started == prog = "rec" /\ ctl.i = Len(CAMERAS) /\ ctl.pc # "start"

\* C28: after VeniceController.start the lists browsers, pages and cam_infos
\* have one length and index i of each is the same camera; a camera whose
\* page did not open is in none of them and its browser is closed; when no
\* camera opened, playwright is stopped and the process exits with status 1.
C28_StartSkipsFailedCameras ==
    /\ (prog = "rec" /\ ctl.pc = "ui") =>
        /\ Len(ctl.browsers) = Len(ctl.pages)
        /\ Len(ctl.pages) = Len(ctl.cam_infos)
        /\ ctl.pages # <<>>
        /\ \A j \in 1..Len(ctl.pages) :
            /\ ctl.pages[j] = ctl.browsers[j]
            /\ ctl.cam_infos[j] = CAMERAS[ctl.browsers[j]]
            /\ ctl.browsers[j] \in ctl.reach
        /\ \A k \in 1..Len(CAMERAS) :
            k \in ctl.reach <=> k \in Range(ctl.browsers)
        /\ \A k \in (1..Len(CAMERAS)) \ ctl.reach :
            k \notin ctl.open /\ CAMERAS[k] \notin Range(ctl.cam_infos)
    /\ (Started /\ ctl.reach = {}) =>
        /\ ctl.pc = "exited" /\ ctl.exit = "1"
        /\ ~ctl.playwright
        /\ ctl.open = {}
    /\ (prog = "rec" /\ ctl.exit = "1") => ctl.reach = {}

\* the second of three cameras did not load
C28_Witness ==
    /\ prog = "rec"
    /\ ctl.pc = "ui"
    /\ ctl.reach = {1, 3}
    /\ ctl.browsers = <<1, 3>>
    /\ ctl.cam_infos = <<CAMERAS[1], CAMERAS[3]>>
    /\ ctl.open = {1, 3}

(***************************************************************************)
(* Contexts created by connect_camera                                      *)
(***************************************************************************)
C29_Step ==
    (prog = "tk" /\ stack # <<>> /\ ConnectStep) =>
        LET r == ConnectCamera(ConnectingCam, Top.refresh, ctxs, up, app.browser)
            created == r.log.created
        IN  created # 0 =>
                \/ r.success /\ r.cam.context = created
                \/ ~r.success /\ r.ctxs[created].st # "open"

\* C29: when connect_camera returns, the context it created is the camera's
\* context (success) or is closed (failure): a failed connect leaves no open
\* context behind.
C29_FailedConnectLeavesNoContext == [][C29_Step]_vars

(***************************************************************************)
(* Page and context go together                                            *)
(***************************************************************************)
\* C30: in every reachable state each camera's page is set if and only if
\* its context is set.
C30_PageIffContext ==
    prog = "tk" =>
        \A g \in Gens : \A i \in 1..Len(cameras[g]) :
            cameras[g][i].page = 0 <=> cameras[g][i].context = 0

\* reload_cameras has just handed a session over to camera A of the new list
\* while camera B, whose connect failed, has none
C30_Witness ==
    /\ prog = "tk"
    /\ gen = 1
    /\ stack # <<>> /\ Top.gen = 1 /\ Top.idx = 0
    /\ Len(cameras[gen]) = 2
    /\ cameras[gen][1].page # 0 /\ cameras[gen][1].context # 0
    /\ cameras[gen][2].page = 0 /\ cameras[gen][2].context = 0
    /\ lastOp.kind = "failed"

(***************************************************************************)
(* The status summary                                                      *)
(***************************************************************************)
\* the cameras whose status indicator shows online
ShownOnline(cams) == {i \in 1..Len(cams) : cams[i].status = "online"}

\* C31: once the handlers have returned, the "online" count of the status
\* summary is the number of cameras whose status indicator is online.
C31_SummaryCountsOnlineIndicators ==
    (prog = "tk" /\ ~app.closed /\ stack = <<>>) =>
        app.summary.online = Cardinality(ShownOnline(cameras[gen]))

(***************************************************************************)
(* CAMERAS_BY_ID and CONFIG["cameras"]                                     *)
(***************************************************************************)
\* C32: whenever a request handler can start and no load_config call is
\* running, also after one that raised part-way, the keys of CAMERAS_BY_ID
\* are the ids of CONFIG["cameras"].
C32_IndexMatchesRegistry ==
    (prog = "flask" /\ loader.pc = "idle" /\ req.pc \in {"idle", "done"}) =>
        DOMAIN CAMERAS_BY_ID = {CONFIG.cameras[i].id : i \in 1..Len(CONFIG.cameras)}

(***************************************************************************)
(* Credentials after reload_cameras                                        *)
(***************************************************************************)
\* the camera's open context was created with the camera's credentials
OwnCredentials(cam, cs) ==
    (cam.context # 0 /\ cs[cam.context].st = "open") =>
        /\ cs[cam.context].username = cam.username
        /\ cs[cam.context].password = cam.password

\* C33: once reload_cameras and its connect pass are over, every camera that
\* holds a live context holds one created with the username and password now
\* configured for it.
C33_ReloadAppliesNewCredentials ==
    (prog = "tk" /\ ~app.closed /\ stack = <<>>) =>
        \A i \in 1..Len(cameras[gen]) : OwnCredentials(cameras[gen][i], ctxs)

====
